---- MODULE Spec2Model ----
(***************************************************************************)
(* Session and transport layer of the Frisbo client (frisbo/client.py,     *)
(* frisbo/resources/base.py, frisbo/resources/auth.py).                     *)
(*                                                                         *)
(* Python values are encoded as follows.                                   *)
(*   Optional[T]   : <<>> is None, <<v>> is the value v.                    *)
(*   str messages  : sequences of string fragments, so that "the message  *)
(*                   contains the text of the cause" is a statement about  *)
(*                   sub-sequences.                                        *)
(*   datetime      : an integer number of seconds.                         *)
(***************************************************************************)
EXTENDS Integers, Sequences, FiniteSets, TLC

VARIABLES
    email,             \* FrisboClient.email
    password,          \* FrisboClient.password
    access_token,      \* FrisboClient.access_token
    token_expires_at,  \* FrisboClient.token_expires_at
    now,               \* the clock read by datetime.now()
    constructed,       \* FALSE when FrisboClient.__init__ raised
    op,                \* the operation that ran last
    args,              \* the arguments it was called with
    ret,               \* what it returned or raised
    calls,             \* the requests it sent, each with the response it got
    issued,            \* t + expires_in of the last successful authenticate()
    gen,               \* the generator that a call of _paginate returned
    other,             \* the generator of a second call of _paginate
    mapping,           \* the dict the caller passes as params (None: it passes none)
    proxy,             \* the proxy argument of FrisboClient.__init__
    proxies            \* FrisboClient.proxies

vars == <<email, password, access_token, token_expires_at, now, constructed,
          op, args, ret, calls, issued, gen, other, mapping, proxy, proxies>>

----------------------------------------------------------------------------
\* Bounds of the model.

\* The clock runs from 0 to MaxTime.
MaxTime == 3

\* The positive token lifetime (seconds) the server hands out.
Lifetime == 2

\* Seconds from the clock's origin to datetime.max: adding a larger
\* timedelta raises OverflowError.
DateRange == 6

\* The pages of a listing: no envelope reports a larger last_page, and the
\* model follows a traversal up to its request for page MaxPage.
MaxPage == 2

\* The number of items of a page that is not empty.
PageSize == 2

----------------------------------------------------------------------------
\* Python values.

None == <<>>

Some(x) == <<x>>

\* bool(x) of an Optional[str]: None and "" are false.
Truthy(s) == s # None /\ s[1] # ""

\* Whether the fragments of part occur, in order and adjacent, in whole.
Contains(whole, part) ==
    \E i \in 1..(Len(whole) + 1) :
        /\ i + Len(part) - 1 <= Len(whole)
        /\ SubSeq(whole, i, i + Len(part) - 1) = part

----------------------------------------------------------------------------
\* The server: every response a request can get.

\* A response body.  shape is what response.json() makes of it: a JSON
\* object, a JSON value that is no object (array, string, number, null), or
\* text that is no JSON ("invalid", the empty body included).
Body(shape, ed, msg, text, tok, exp) ==
    [shape |-> shape, error_description |-> ed, message |-> msg,
     text |-> text, access_token |-> tok, expires_in |-> exp,
     data |-> <<>>, current_page |-> None, last_page |-> None,
     per_page |-> None, total |-> None]

Response(kind, status, body) == [kind |-> kind, status |-> status, body |-> body]

EmptyBody == Body("invalid", None, None, "", None, None)

\* One body of every shape that is no JSON object.
OtherBodies ==
    { Body("array", None, None, "[1,2]", None, None),
      Body("string", None, None, "\"down\"", None, None),
      Body("number", None, None, "503", None, None),
      Body("null", None, None, "null", None, None),
      Body("invalid", None, None, "<html>", None, None),
      EmptyBody }

ErrorBodies ==
    { Body("object", ed, msg, "{..}", None, None) :
        ed \in {None, Some(""), Some("invalid_grant")},
        msg \in {None, Some("boom")} }
    \cup { Body("array", None, None, "[1,2]", None, None) }
    \cup { Body("invalid", None, None, t, None, None) : t \in {"", "<html>"} }
    \cup OtherBodies

ErrorStatuses == {400, 401, 404, 429, 500}

\* Statuses below 400: the response is returned to the caller.
SuccessStatuses == {200, 399}

\* Every error body under one status, and every error status with one
\* JSON object and with one body of every other shape.
ErrorResponses ==
    { Response("http", 500, b) : b \in ErrorBodies }
    \cup { Response("http", s, Body("object", Some("invalid_grant"), None, "{..}", None, None)) :
             s \in ErrorStatuses }
    \cup { Response("http", s, b) : s \in ErrorStatuses, b \in OtherBodies }

\* The failures of the login and logout endpoints.
AuthErrorResponses ==
    { Response("http", s, Body("object", Some("invalid_grant"), None, "{..}", None, None)) :
        s \in {401, 404, 429} }
    \cup { Response("http", 500, EmptyBody) }

\* No HTTP response at all: requests.request raises.
TransportFailure == Response("transport", 0, EmptyBody)

LoginBodies ==
    { Body("object", None, None, "{..}", tok, exp) :
        tok \in {None, Some(""), Some("abc"), Some("xyz")},
        exp \in {None, Some(0), Some(Lifetime), Some(0 - 1), Some(DateRange + 1)} }
    \cup { Body("array", None, None, "[]", None, None),
           Body("invalid", None, None, "<html>", None, None) }

LoginResponses ==
    { Response("http", 200, b) : b \in LoginBodies }
    \cup AuthErrorResponses \cup {TransportFailure}

PlainResponses ==
    { Response("http", 200, Body("object", None, None, "{..}", None, None)) }
    \cup AuthErrorResponses \cup {TransportFailure}

\* What a resource call can be answered with.
DispatchResponses ==
    { Response("http", s, Body("object", None, None, "{..}", None, None)) :
        s \in SuccessStatuses }
    \cup ErrorResponses \cup {TransportFailure}

\* The extra headers a caller hands to the dispatcher (headers=...).
Headers(authorization, content_type) ==
    [Authorization |-> authorization, ContentType |-> content_type]

NoHeaders == Headers(None, None)

ExtraHeaders ==
    { NoHeaders, Headers(Some("Bearer other"), None), Headers(None, Some("text/plain")),
      Headers(Some("Bearer other"), Some("text/plain")) }

\* The resource calls of the model: every response to a call without extra
\* headers, and every choice of extra headers with a response that succeeds.
Dispatches ==
    { <<NoHeaders, r>> : r \in DispatchResponses }
    \cup { <<h, Response("http", 200, Body("object", None, None, "{..}", None, None))>> :
             h \in ExtraHeaders }

----------------------------------------------------------------------------
\* Exceptions (frisbo/exceptions.py) and results of operations.

Error(kind, message, status_code, response) ==
    [kind |-> kind, message |-> message, status_code |-> status_code,
     response |-> response]

NoError == Error("none", <<>>, None, None)

Raised(r) == r.error.kind # "none"

\* A request as it went out, with what came back.
Call(method, endpoint, authorization, content_type, response) ==
    [method |-> method, endpoint |-> endpoint, authorization |-> authorization,
     content_type |-> content_type, response |-> response]

----------------------------------------------------------------------------
\* frisbo/resources/base.py

\* str(error_data) of a decoded JSON value: the Python rendering, which is
\* not the text that was received.
Str(body) ==
    IF body.shape # "object" THEN <<"[1, 2]">>
    ELSE
    <<"{">>
    \o (IF body.error_description # None
        THEN <<"'error_description': ", body.error_description[1]>> ELSE <<>>)
    \o (IF body.message # None THEN <<"'message': ", body.message[1]>> ELSE <<>>)
    \o <<"}">>

\* _handle_error that classifies 429 like any other status.
handle_error_no_rate_limit(response) ==
    LET body == response.body
        status_code == response.status
        message ==
            IF body.shape = "object"
            THEN IF Truthy(body.error_description) THEN <<body.error_description[1]>>
                 ELSE IF Truthy(body.message) THEN <<body.message[1]>>
                 ELSE Str(body)
            ELSE IF body.text # "" THEN <<body.text>>
                 ELSE <<"HTTP ", ToString(status_code)>>
        error_data == IF body.shape \notin {"invalid", "null"} THEN Some(body) ELSE None
    IN  IF status_code = 404
        THEN Error("NotFoundError", message, Some(status_code), error_data)
        ELSE Error("APIError", message, Some(status_code), error_data)

\* _handle_error that reads the message field before error_description.
handle_error_message_first(response) ==
    LET body == response.body
        status_code == response.status
        message ==
            IF body.shape = "object"
            THEN IF Truthy(body.message) THEN <<body.message[1]>>
                 ELSE IF Truthy(body.error_description) THEN <<body.error_description[1]>>
                 ELSE Str(body)
            ELSE IF body.text # "" THEN <<body.text>>
                 ELSE <<"HTTP ", ToString(status_code)>>
        error_data == IF body.shape \notin {"invalid", "null"} THEN Some(body) ELSE None
    IN  IF status_code = 404
        THEN Error("NotFoundError", message, Some(status_code), error_data)
        ELSE IF status_code = 429
        THEN Error("RateLimitError", message, Some(status_code), error_data)
        ELSE Error("APIError", message, Some(status_code), error_data)

\* _handle_error whose except clause catches the decoding error only
\* (except ValueError): the AttributeError of error_data.get escapes.
handle_error_catches_decode_only(response) ==
    LET body == response.body
        status_code == response.status
        message ==
            IF body.shape = "object"
            THEN IF Truthy(body.error_description) THEN <<body.error_description[1]>>
                 ELSE IF Truthy(body.message) THEN <<body.message[1]>>
                 ELSE Str(body)
            ELSE IF body.text # "" THEN <<body.text>>
                 ELSE <<"HTTP ", ToString(status_code)>>
        error_data == IF body.shape \notin {"invalid", "null"} THEN Some(body) ELSE None
    IN  IF body.shape \notin {"object", "invalid"}
        THEN Error("AttributeError", <<"object has no attribute 'get'">>, None, None)
        ELSE IF status_code = 404
        THEN Error("NotFoundError", message, Some(status_code), error_data)
        ELSE IF status_code = 429
        THEN Error("RateLimitError", message, Some(status_code), error_data)
        ELSE Error("APIError", message, Some(status_code), error_data)

\* BaseResource._handle_error: the exception raised for a status >= 400.
handle_error(response) ==
    LET body == response.body
        status_code == response.status
        \* response.json() succeeded, so the name error_data is bound
        bound == body.shape # "invalid"
        \* error_data.get exists only on a JSON object
        message ==
            IF body.shape = "object"
            THEN IF Truthy(body.error_description) THEN <<body.error_description[1]>>
                 ELSE IF Truthy(body.message) THEN <<body.message[1]>>
                 ELSE Str(body)
            ELSE IF body.text # "" THEN <<body.text>>
                 ELSE <<"HTTP ", ToString(status_code)>>
        \* the decoded value; JSON null decodes to None
        error_data == IF bound /\ body.shape # "null" THEN Some(body) ELSE None
    IN  IF status_code = 404
        THEN Error("NotFoundError", message, Some(status_code), error_data)
        ELSE IF status_code = 429
        THEN Error("RateLimitError", message, Some(status_code), error_data)
        ELSE Error("APIError", message, Some(status_code), error_data)

\* _request that fills in its two headers only where the caller gave none
\* (headers.setdefault).
request_keeps_extra_headers(token, method, endpoint, headers, response) ==
    LET authorization == IF headers.Authorization # None THEN headers.Authorization
                         ELSE IF Truthy(token) THEN Some("Bearer " \o token[1])
                         ELSE None
        content_type == IF headers.ContentType # None THEN headers.ContentType[1]
                        ELSE "application/json"
        sent == Call(method, endpoint, authorization, content_type, response)
    IN  [error |-> IF response.kind = "transport"
                   THEN Error("ConnectionError", <<"Connection refused">>, None, None)
                   ELSE IF response.status >= 400 THEN handle_error(response)
                   ELSE NoError,
         response |-> response,
         token |-> token,
         calls |-> <<sent>>]

\* _request that sends a bearer header for every token that is not None.
request_bearer_if_not_none(token, method, endpoint, headers, response) ==
    LET authorization == IF token # None THEN Some("Bearer " \o token[1])
                         ELSE headers.Authorization
        sent == Call(method, endpoint, authorization, "application/json", response)
    IN  [error |-> IF response.kind = "transport"
                   THEN Error("ConnectionError", <<"Connection refused">>, None, None)
                   ELSE IF response.status >= 400 THEN handle_error(response)
                   ELSE NoError,
         response |-> response,
         token |-> token,
         calls |-> <<sent>>]

\* _request that lets status 400 through.
request_raises_above_400(token, method, endpoint, headers, response) ==
    LET authorization == IF Truthy(token) THEN Some("Bearer " \o token[1])
                         ELSE headers.Authorization
        sent == Call(method, endpoint, authorization, "application/json", response)
    IN  [error |-> IF response.kind = "transport"
                   THEN Error("ConnectionError", <<"Connection refused">>, None, None)
                   ELSE IF response.status > 400 THEN handle_error(response)
                   ELSE NoError,
         response |-> response,
         token |-> token,
         calls |-> <<sent>>]

\* _request that sends the request a second time when the answer is 429.
request_retries_429(token, method, endpoint, headers, response) ==
    LET authorization == IF Truthy(token) THEN Some("Bearer " \o token[1])
                         ELSE headers.Authorization
        sent == Call(method, endpoint, authorization, "application/json", response)
    IN  [error |-> IF response.kind = "transport"
                   THEN Error("ConnectionError", <<"Connection refused">>, None, None)
                   ELSE IF response.status >= 400 THEN handle_error(response)
                   ELSE NoError,
         response |-> response,
         token |-> token,
         calls |-> IF response.kind = "http" /\ response.status = 429
                   THEN <<sent, sent>> ELSE <<sent>>]

\* _request that forgets the session's token when the answer is 401.
request_drops_token(token, method, endpoint, headers, response) ==
    LET authorization == IF Truthy(token) THEN Some("Bearer " \o token[1])
                         ELSE headers.Authorization
        sent == Call(method, endpoint, authorization, "application/json", response)
    IN  [error |-> IF response.kind = "transport"
                   THEN Error("ConnectionError", <<"Connection refused">>, None, None)
                   ELSE IF response.status >= 400 THEN handle_error(response)
                   ELSE NoError,
         response |-> response,
         token |-> IF response.kind = "http" /\ response.status = 401 THEN None ELSE token,
         calls |-> <<sent>>]

\* BaseResource._request: one request with the session's token; the error is
\* what it raises (a transport failure escapes as the requests exception),
\* token is client.access_token afterwards (it is read, never assigned).
request(token, method, endpoint, headers, response) ==
    LET authorization == IF Truthy(token) THEN Some("Bearer " \o token[1])
                         ELSE headers.Authorization
        sent == Call(method, endpoint, authorization, "application/json", response)
    IN  [error |-> IF response.kind = "transport"
                   THEN Error("ConnectionError", <<"Connection refused">>, None, None)
                   ELSE IF response.status >= 400 THEN handle_error(response)
                   ELSE NoError,
         response |-> response,
         token |-> token,
         calls |-> <<sent>>]

\* Variant: the login is sent without the client's proxies.
through_unless_login(setting, sent) ==
    [i \in 1..Len(sent) |->
        [method |-> sent[i].method, endpoint |-> sent[i].endpoint,
         authorization |-> sent[i].authorization,
         content_type |-> sent[i].content_type, response |-> sent[i].response,
         proxies |-> IF sent[i].endpoint = "/v1/auth/login" THEN None ELSE setting]]

\* requests.request(..., proxies=self.client.proxies): every request of an
\* operation goes out with the proxies the client holds.
through(setting, sent) ==
    [i \in 1..Len(sent) |->
        [method |-> sent[i].method, endpoint |-> sent[i].endpoint,
         authorization |-> sent[i].authorization,
         content_type |-> sent[i].content_type, response |-> sent[i].response,
         proxies |-> setting]]

----------------------------------------------------------------------------
\* frisbo/resources/auth.py

\* AuthResource.login: POST /v1/auth/login, then Authorization(**response.json()),
\* whose fields access_token and expires_in are required (frisbo/models.py).
login(token, response) ==
    LET r == request(token, "POST", "/v1/auth/login", NoHeaders, response)
        body == response.body
        error ==
            IF Raised(r) THEN r.error
            ELSE IF body.shape = "invalid"
            THEN Error("JSONDecodeError", <<"Expecting value">>, None, None)
            ELSE IF body.shape # "object"
            THEN Error("TypeError", <<"argument after ** must be a mapping">>, None, None)
            ELSE IF body.access_token = None \/ body.expires_in = None
            THEN Error("ValidationError", <<"Field required">>, None, None)
            ELSE NoError
    IN  [error |-> error,
         access_token |-> body.access_token,
         expires_in |-> body.expires_in,
         calls |-> r.calls]

\* AuthResource.logout: GET /v1/auth/logout.
auth_logout(token, response) ==
    request(token, "GET", "/v1/auth/logout", NoHeaders, response)

----------------------------------------------------------------------------
\* frisbo/client.py

\* The session fields of a client.
Session(e, p, tok, exp) ==
    [email |-> e, password |-> p, access_token |-> tok, token_expires_at |-> exp]

\* What an operation did: the session it left, what it raised (or NoError),
\* what it returned (None for no value) and the requests it sent.
Result(self, error, value, sent) ==
    [self |-> self, error |-> error, value |-> value, calls |-> sent]

\* datetime.now() + timedelta(seconds=n) raises OverflowError past datetime.max.
Overflows(t, n) == t + n > DateRange

\* authenticate with the cause re-raised as it is, not wrapped.
authenticate_leaks(self, t, response) ==
    IF ~Truthy(self.email) \/ ~Truthy(self.password)
    THEN Result(self,
                Error("AuthenticationError",
                      <<"Email and password are required for authentication">>,
                      None, None),
                None, <<>>)
    ELSE LET r == login(self.access_token, response)
             stored == [self EXCEPT !.access_token = r.access_token]
         IN  IF Raised(r)
             THEN Result(self, r.error, None, r.calls)
             ELSE IF r.expires_in[1] # 0 /\ ~Overflows(t, r.expires_in[1])
             THEN Result([stored EXCEPT !.token_expires_at = Some(t + r.expires_in[1])],
                         NoError, r.access_token, r.calls)
             ELSE Result(stored, NoError, r.access_token, r.calls)

\* authenticate without the check of the credentials: the login is sent anyway.
authenticate_unchecked(self, t, response) ==
    LET r == login(self.access_token, response)
        stored == [self EXCEPT !.access_token = r.access_token]
    IN  IF Raised(r)
        THEN Result(self,
                    Error("AuthenticationError",
                          <<"Authentication failed: ">> \o r.error.message, None, None),
                    None, r.calls)
        ELSE IF r.expires_in[1] # 0 /\ ~Overflows(t, r.expires_in[1])
        THEN Result([stored EXCEPT !.token_expires_at = Some(t + r.expires_in[1])],
                    NoError, r.access_token, r.calls)
        ELSE Result(stored, NoError, r.access_token, r.calls)

\* FrisboClient.authenticate
authenticate(self, t, response) ==
    IF ~Truthy(self.email) \/ ~Truthy(self.password)
    THEN Result(self,
                Error("AuthenticationError",
                      <<"Email and password are required for authentication">>,
                      None, None),
                None, <<>>)
    ELSE LET r == login(self.access_token, response)
             stored == [self EXCEPT !.access_token = r.access_token]
             wrap(e) == Error("AuthenticationError",
                              <<"Authentication failed: ">> \o e.message, None, None)
         IN  IF Raised(r)
             THEN Result(self, wrap(r.error), None, r.calls)
             ELSE IF r.expires_in[1] # 0
             THEN IF Overflows(t, r.expires_in[1])
                  THEN Result(stored,
                              wrap(Error("OverflowError", <<"date value out of range">>,
                                         None, None)),
                              None, r.calls)
                  ELSE Result([stored EXCEPT !.token_expires_at = Some(t + r.expires_in[1])],
                              NoError, r.access_token, r.calls)
             ELSE Result(stored, NoError, r.access_token, r.calls)

\* is_authenticated with the token still valid at the instant it expires.
is_authenticated_late(self, t) ==
    IF ~Truthy(self.access_token) THEN FALSE
    ELSE IF self.token_expires_at # None /\ t > self.token_expires_at[1] THEN FALSE
    ELSE TRUE

\* FrisboClient.is_authenticated
is_authenticated(self, t) ==
    IF ~Truthy(self.access_token) THEN FALSE
    ELSE IF self.token_expires_at # None /\ t >= self.token_expires_at[1] THEN FALSE
    ELSE TRUE

\* ensure_authenticated that tries the login a second time when it failed.
ensure_authenticated_retry(self, t, response) ==
    IF ~is_authenticated(self, t)
    THEN IF Truthy(self.email) /\ Truthy(self.password)
         THEN LET r == authenticate(self, t, response)
              IN  Result(r.self, r.error, None,
                         IF Raised(r) THEN r.calls \o r.calls ELSE r.calls)
         ELSE Result(self,
                     Error("AuthenticationError",
                           <<"Not authenticated and no credentials available">>,
                           None, None),
                     None, <<>>)
    ELSE Result(self, NoError, None, <<>>)

\* ensure_authenticated that returns quietly when there are no credentials.
ensure_authenticated_silent(self, t, response) ==
    IF ~is_authenticated(self, t) /\ Truthy(self.email) /\ Truthy(self.password)
    THEN LET r == authenticate(self, t, response)
         IN  Result(r.self, r.error, None, r.calls)
    ELSE Result(self, NoError, None, <<>>)

\* FrisboClient.ensure_authenticated
ensure_authenticated(self, t, response) ==
    IF ~is_authenticated(self, t)
    THEN IF Truthy(self.email) /\ Truthy(self.password)
         THEN LET r == authenticate(self, t, response)
              IN  Result(r.self, r.error, None, r.calls)
         ELSE Result(self,
                     Error("AuthenticationError",
                           <<"Not authenticated and no credentials available">>,
                           None, None),
                     None, <<>>)
    ELSE Result(self, NoError, None, <<>>)

\* logout that clears the fields only after a remote call that succeeded.
logout_clears_on_success(self, response) ==
    IF Truthy(self.access_token)
    THEN LET r == auth_logout(self.access_token, response)
         IN  Result(IF Raised(r) THEN self
                    ELSE [self EXCEPT !.access_token = None, !.token_expires_at = None],
                    r.error, None, r.calls)
    ELSE Result(self, NoError, None, <<>>)

\* logout that forgets the token and keeps its expiry.
logout_keeps_expiry(self, response) ==
    IF Truthy(self.access_token)
    THEN LET r == auth_logout(self.access_token, response)
         IN  Result([self EXCEPT !.access_token = None], r.error, None, r.calls)
    ELSE Result(self, NoError, None, <<>>)

\* logout that calls the remote endpoint whether or not a token is held.
logout_always_calls(self, response) ==
    LET r == auth_logout(self.access_token, response)
    IN  Result([self EXCEPT !.access_token = None, !.token_expires_at = None],
               r.error, None, r.calls)

\* logout that forgets the credentials together with the token.
logout_forgets_credentials(self, response) ==
    IF Truthy(self.access_token)
    THEN LET r == auth_logout(self.access_token, response)
         IN  Result(Session(None, None, None, None), r.error, None, r.calls)
    ELSE Result(self, NoError, None, <<>>)

\* logout that clears the fields first and calls the remote endpoint after.
logout_clears_first(self, response) ==
    IF Truthy(self.access_token)
    THEN LET r == auth_logout(None, response)
         IN  Result([self EXCEPT !.access_token = None, !.token_expires_at = None],
                    r.error, None, r.calls)
    ELSE Result(self, NoError, None, <<>>)

\* FrisboClient.logout: try: self.auth.logout() finally: clear both fields.
logout(self, response) ==
    IF Truthy(self.access_token)
    THEN LET r == auth_logout(self.access_token, response)
         IN  Result([self EXCEPT !.access_token = None, !.token_expires_at = None],
                    r.error, None, r.calls)
    ELSE Result(self, NoError, None, <<>>)

\* self.proxies = {'http': proxy, 'https': proxy} if proxy else None
init_proxies(url) ==
    IF Truthy(url) THEN Some([http |-> url[1], https |-> url[1]]) ELSE None

\* __init__ that authenticates whatever auto_authenticate says.
init_ignores_flag(e, p, tok, auto_authenticate, response) ==
    LET self == Session(e, p, tok, None)
    IN  IF Truthy(e) /\ Truthy(p) /\ ~Truthy(tok)
        THEN LET r == authenticate(self, 0, response)
             IN  Result(r.self, r.error, None, r.calls)
        ELSE Result(self, NoError, None, <<>>)

\* FrisboClient.__init__
init(e, p, tok, auto_authenticate, response) ==
    LET self == Session(e, p, tok, None)
    IN  IF auto_authenticate /\ Truthy(e) /\ Truthy(p) /\ ~Truthy(tok)
        THEN LET r == authenticate(self, 0, response)
             IN  Result(r.self, r.error, None, r.calls)
        ELSE Result(self, NoError, None, <<>>)

----------------------------------------------------------------------------
\* frisbo/resources/base.py: BaseResource._paginate

\* A query mapping (a dict): the caller's filter and the page, None for a key
\* that is not in it.
Query(filter, page) == [filter |-> filter, page |-> page]

\* bool(d) of a dict: the empty dict is false.
NonEmpty(d) == d.filter # None \/ d.page # None

\* What a caller passes as params: nothing, an empty dict, a dict with a
\* filter.
Mappings == {None, Some(Query(None, None)), Some(Query(Some("new"), None))}

\* The generator object of one traversal.
\*   state     "none" (no traversal), "created" (nothing has run yet),
\*             "running", "done" (exhausted), "failed" (an exception left it)
\*             or "closed" (given up by the consumer)
\*   start     the page argument of the call
\*   page      the page of the last request
\*   buffer    the items of that page not yet handed to the consumer
\*   more      current_page < last_page, as read from that page
\*   yielded   the items handed to the consumer so far
\*   requests  the page parameter of every request sent
\*   pages     the items of every page received
\*   reports   current_page, last_page, per_page and total of every page
\*             received
\*   arg       what was passed as params: "none" or "caller" (the caller's dict)
\*   alias     whether params, after `params or {}`, is the caller's dict
\*   params    the dict made by `params or {}` when it is not the caller's
\*   queries   the query of every request sent
\*   first_current, first_last   current_page and last_page of the first page
\*   honest    every page so far reported the page that was asked for as
\*             current_page, or none, and the same last_page as the first page
NoGen ==
    [state |-> "none", start |-> 0, page |-> 0, buffer |-> <<>>, more |-> FALSE,
     yielded |-> <<>>, requests |-> <<>>, pages |-> <<>>, reports |-> <<>>,
     arg |-> "none", alias |-> FALSE, params |-> [filter |-> None, page |-> None],
     queries |-> <<>>,
     first_current |-> None, first_last |-> None, honest |-> TRUE]

\* Variant: the first page is requested when the traversal is created (and
\* comes back empty, without current_page and last_page).
paginate_eager(params, page) ==
    [NoGen EXCEPT !.state = "running", !.start = page, !.page = page,
                  !.arg = IF params = None THEN "none" ELSE "caller",
                  !.requests = <<page>>, !.pages = << <<>> >>,
                  !.queries = << Query(None, Some(page)) >>,
                  !.reports = << [current_page |-> None, last_page |-> None,
                                  per_page |-> None, total |-> None] >>,
                  !.honest = FALSE]

\* Calling the generator function runs none of its body: the generator holds
\* the arguments.
paginate(params, page) ==
    [NoGen EXCEPT !.state = "created", !.start = page,
                  !.arg = IF params = None THEN "none" ELSE "caller"]

\* The records the server keeps on page number page: n of them.
Items(page, n) == [i \in 1..n |-> [page |-> page, index |-> i]]

\* A Page Envelope.
Envelope(data, current_page, last_page) ==
    [Body("object", None, None, "{..}", None, None)
        EXCEPT !.data = data, !.current_page = current_page, !.last_page = last_page]

\* An envelope that says it is the last page, full, with a total that says
\* there are more records than the pages hold.
CountedEnvelope(page) ==
    [Envelope(Items(page, PageSize), Some(page), Some(page))
        EXCEPT !.per_page = Some(PageSize), !.total = Some(PageSize * page + 1)]

\* Every envelope the server may answer a request for page with.
Envelopes(page) ==
    { Envelope(Items(page, n), current_page, last_page) :
        n \in {0, PageSize},
        current_page \in {None, Some(page), Some(page - 1)},
        last_page \in {None} \cup { Some(l) : l \in 1..MaxPage } }
    \cup { CountedEnvelope(page) }

\* The envelope of page in a listing that does not change: MaxPage full pages.
Listing(page) == Envelope(Items(page, PageSize), Some(page), Some(MaxPage))

\* The answers to a page request that are no envelope.
PageFailures ==
    { Response("http", 404, Body("object", None, Some("boom"), "{..}", None, None)),
      Response("http", 401, Body("object", Some("invalid_grant"), None, "{..}", None, None)),
      Response("http", 200, Body("invalid", None, None, "<html>", None, None)),
      Response("http", 200, Body("array", None, None, "[1,2]", None, None)),
      TransportFailure }

PageResponses(page) ==
    { Response("http", 200, e) : e \in Envelopes(page) } \cup PageFailures

\* Variant: the comparison is current_page <= last_page.
has_more_le(page, data) ==
    LET current_page == IF data.current_page # None THEN data.current_page[1] ELSE page
        last_page == IF data.last_page # None THEN data.last_page[1] ELSE page
    IN  current_page <= last_page

\* Variant: without last_page the traversal goes on until a page is empty.
has_more_until_empty(page, data) ==
    LET current_page == IF data.current_page # None THEN data.current_page[1] ELSE page
    IN  IF data.last_page = None THEN data.data # <<>>
        ELSE current_page < data.last_page[1]

\* Variant: a missing current_page counts as 0.
has_more_current_zero(page, data) ==
    LET current_page == IF data.current_page # None THEN data.current_page[1] ELSE 0
        last_page == IF data.last_page # None THEN data.last_page[1] ELSE page
    IN  current_page < last_page

\* Variant: a total beyond the records of the pages so far means more pages.
has_more_by_total(page, data) ==
    LET current_page == IF data.current_page # None THEN data.current_page[1] ELSE page
        last_page == IF data.last_page # None THEN data.last_page[1] ELSE page
    IN  \/ current_page < last_page
        \/ /\ data.per_page # None
           /\ data.total # None
           /\ current_page * data.per_page[1] < data.total[1]

\* current_page < last_page, each defaulting to the requested page.
has_more(page, data) ==
    LET current_page == IF data.current_page # None THEN data.current_page[1] ELSE page
        last_page == IF data.last_page # None THEN data.last_page[1] ELSE page
    IN  current_page < last_page

\* Variant: the page number sent is one more than the page entry found in the
\* params dict, when there is one.
fetch_page_from_params(g, token, caller, page, response) ==
    LET \* params = params or {}
        alias == IF g.state = "created"
                 THEN g.arg = "caller" /\ caller # None /\ NonEmpty(caller[1])
                 ELSE g.alias
        \* params["page"] = params.get("page", page - 1) + 1
        sent == IF alias /\ caller[1].page # None THEN caller[1].page[1] + 1
                ELSE page
        params == [(IF alias THEN caller[1] ELSE g.params) EXCEPT !.page = Some(sent)]
        r == request(token, "GET", "/v1/organizations", NoHeaders, response)
        data == response.body
        error ==
            IF Raised(r) THEN r.error
            ELSE IF data.shape = "invalid"
            THEN Error("JSONDecodeError", <<"Expecting value">>, None, None)
            ELSE IF data.shape # "object"
            THEN Error("AttributeError", <<"'list' object has no attribute 'get'">>,
                       None, None)
            ELSE NoError
        asked == [g EXCEPT !.page = page, !.requests = Append(g.requests, page),
                           !.alias = alias,
                           !.params = IF alias THEN g.params ELSE params,
                           !.queries = Append(g.queries, params)]
        first == g.pages = <<>>
    IN  [error |-> error,
         calls |-> r.calls,
         token |-> r.token,
         mapping |-> IF alias THEN Some(params) ELSE caller,
         gen |-> IF error # NoError
                 THEN [asked EXCEPT !.state = "failed", !.buffer = <<>>, !.more = FALSE]
                 ELSE [asked EXCEPT
                         !.state = "running",
                         !.buffer = data.data,
                         !.more = has_more(page, data),
                         !.pages = Append(g.pages, data.data),
                         !.reports = Append(g.reports,
                                            [current_page |-> data.current_page,
                                             last_page |-> data.last_page,
                                             per_page |-> data.per_page,
                                             total |-> data.total]),
                         !.first_current = IF first THEN data.current_page
                                           ELSE g.first_current,
                         !.first_last = IF first THEN data.last_page ELSE g.first_last,
                         !.honest = /\ g.honest
                                    /\ data.current_page \in {None, Some(page)}
                                    /\ data.last_page # None
                                    /\ (first \/ data.last_page = g.first_last)]]

\* One run of the body of _paginate up to its first yield: the request for
\* page and the reading of the envelope.
fetch(g, token, caller, page, response) ==
    LET \* params = params or {}
        alias == IF g.state = "created"
                 THEN g.arg = "caller" /\ caller # None /\ NonEmpty(caller[1])
                 ELSE g.alias
        \* params["page"] = page
        params == [(IF alias THEN caller[1] ELSE g.params) EXCEPT !.page = Some(page)]
        r == request(token, "GET", "/v1/organizations", NoHeaders, response)
        data == response.body
        error ==
            IF Raised(r) THEN r.error
            ELSE IF data.shape = "invalid"
            THEN Error("JSONDecodeError", <<"Expecting value">>, None, None)
            ELSE IF data.shape # "object"
            THEN Error("AttributeError", <<"'list' object has no attribute 'get'">>,
                       None, None)
            ELSE NoError
        asked == [g EXCEPT !.page = page, !.requests = Append(g.requests, page),
                           !.alias = alias,
                           !.params = IF alias THEN g.params ELSE params,
                           !.queries = Append(g.queries, params)]
        first == g.pages = <<>>
    IN  [error |-> error,
         calls |-> r.calls,
         token |-> r.token,
         mapping |-> IF alias THEN Some(params) ELSE caller,
         gen |-> IF error # NoError
                 THEN [asked EXCEPT !.state = "failed", !.buffer = <<>>, !.more = FALSE]
                 ELSE [asked EXCEPT
                         !.state = "running",
                         !.buffer = data.data,
                         !.more = has_more(page, data),
                         !.pages = Append(g.pages, data.data),
                         !.reports = Append(g.reports,
                                            [current_page |-> data.current_page,
                                             last_page |-> data.last_page,
                                             per_page |-> data.per_page,
                                             total |-> data.total]),
                         !.first_current = IF first THEN data.current_page
                                           ELSE g.first_current,
                         !.first_last = IF first THEN data.last_page ELSE g.first_last,
                         !.honest = /\ g.honest
                                    /\ data.current_page \in {None, Some(page)}
                                    /\ data.last_page # None
                                    /\ (first \/ data.last_page = g.first_last)]]

StopIteration == Error("StopIteration", <<>>, None, None)

\* Variant: every traversal starts at page 1.
next_page_from_one(g) == IF g.state = "created" THEN 1 ELSE g.page + 1

\* The page of the next request: the page argument of the call, then page + 1
\* of the call before.
next_page(g) == IF g.state = "created" THEN g.start ELSE g.page + 1

\* generator.close(), also what dropping the generator does: no more of the
\* body runs.
close(g) == IF g.state \in {"created", "running"} THEN [g EXCEPT !.state = "closed"] ELSE g

\* next() on the generator: every way it can end, with the generator it
\* leaves, the item or the exception it gives, the requests it sent, and the
\* client's token and the caller's dict afterwards.  A page without items is
\* followed by the request for the next page at once.  The server answers a
\* request for a page with any of PageResponses, or (steady) with that page
\* of the listing that does not change.
RECURSIVE generator_next(_, _, _, _)
generator_next(g, token, caller, steady) ==
    IF g.state \in {"none", "done", "failed", "closed"}
    THEN { [gen |-> g, error |-> StopIteration, value |-> None, calls |-> <<>>,
            token |-> token, mapping |-> caller] }
    ELSE IF g.state = "running" /\ g.buffer # <<>>
    THEN { [gen |-> [g EXCEPT !.buffer = Tail(g.buffer),
                              !.yielded = Append(g.yielded, Head(g.buffer))],
            error |-> NoError, value |-> Some(Head(g.buffer)), calls |-> <<>>,
            token |-> token, mapping |-> caller] }
    ELSE IF g.state = "running" /\ ~g.more
    THEN { [gen |-> [g EXCEPT !.state = "done"],
            error |-> StopIteration, value |-> None, calls |-> <<>>, token |-> token,
            mapping |-> caller] }
    ELSE IF next_page(g) > MaxPage
    THEN {}
    ELSE LET page == next_page(g)
         IN  UNION { IF f.error # NoError
                     THEN { [gen |-> f.gen, error |-> f.error, value |-> None,
                             calls |-> f.calls, token |-> f.token,
                             mapping |-> f.mapping] }
                     ELSE { [o EXCEPT !.calls = f.calls \o o.calls] :
                                o \in generator_next(f.gen, f.token, f.mapping, steady) } :
                     f \in { fetch(g, token, caller, page, response) :
                                response \in IF steady
                                             THEN {Response("http", 200, Listing(page))}
                                             ELSE PageResponses(page) } }

\* next() against a server that may answer each request with anything.
paginate_next(g, token, caller) == generator_next(g, token, caller, FALSE)

----------------------------------------------------------------------------
\* The state machine: a client, its caller and the clock.

self == Session(email, password, access_token, token_expires_at)

NoArgs == <<>>

\* Whether r is the result of an operation in which authenticate() succeeded.
Authenticated(r) ==
    /\ ~Raised(r)
    /\ r.calls # <<>>
    /\ r.calls[1].endpoint = "/v1/auth/login"

\* t + expires_in of the login that r ends.
Deadline(t, r) == Some(t + r.calls[1].response.body.expires_in[1])

\* The state after operation name, called with a, ended with result r.
Becomes(name, a, r) ==
    /\ email' = r.self.email
    /\ password' = r.self.password
    /\ access_token' = r.self.access_token
    /\ token_expires_at' = r.self.token_expires_at
    /\ op' = name
    /\ args' = a
    /\ ret' = [error |-> r.error, value |-> r.value]
    /\ calls' = through(proxies, r.calls)
    /\ issued' = IF Authenticated(r) THEN Deadline(now, r) ELSE issued
    /\ UNCHANGED <<gen, other, mapping, proxy, proxies>>

Emails == {None, Some(""), Some("user@example.com")}

Passwords == {None, Some(""), Some("secret")}

Tokens == {None, Some(""), Some("tok0")}

Init ==
    \E e \in Emails, p \in Passwords, tok \in Tokens, auto \in BOOLEAN,
       response \in LoginResponses :
        LET r == init(e, p, tok, auto, response)
        IN  /\ email = r.self.email
            /\ password = r.self.password
            /\ access_token = r.self.access_token
            /\ token_expires_at = r.self.token_expires_at
            /\ now = 0
            /\ constructed = ~Raised(r)
            /\ op = "__init__"
            /\ args = [access_token |-> tok, auto_authenticate |-> auto]
            /\ ret = [error |-> r.error, value |-> r.value]
            /\ calls = through(init_proxies(None), r.calls)
            /\ issued = IF Authenticated(r) THEN Deadline(0, r) ELSE None
            /\ gen = NoGen
            /\ other = NoGen
            /\ mapping = None
            /\ proxy = None
            /\ proxies = init_proxies(None)

CallAuthenticate ==
    /\ constructed
    /\ \E response \in LoginResponses :
           Becomes("authenticate", NoArgs, authenticate(self, now, response))
    /\ UNCHANGED <<now, constructed>>

CallIsAuthenticated ==
    /\ constructed
    /\ Becomes("is_authenticated", NoArgs,
               Result(self, NoError, Some(is_authenticated(self, now)), <<>>))
    /\ UNCHANGED <<now, constructed>>

CallEnsureAuthenticated ==
    /\ constructed
    /\ \E response \in LoginResponses :
           Becomes("ensure_authenticated", NoArgs, ensure_authenticated(self, now, response))
    /\ UNCHANGED <<now, constructed>>

CallLogout ==
    /\ constructed
    /\ \E response \in PlainResponses :
           Becomes("logout", NoArgs, logout(self, response))
    /\ UNCHANGED <<now, constructed>>

\* A resource call that goes straight to the dispatcher: BaseResource._get.
CallGet ==
    /\ constructed
    /\ \E d \in Dispatches :
           LET headers == d[1]
               r == request(access_token, "GET", "/v1/me", headers, d[2])
           IN  Becomes("_get", [headers |-> headers],
                       Result([self EXCEPT !.access_token = r.token], r.error,
                              IF Raised(r) THEN None ELSE Some(r.response), r.calls))
    /\ UNCHANGED <<now, constructed>>

\* Time passes between two operations.
Tick ==
    /\ constructed
    /\ now < MaxTime
    /\ now' = now + 1
    /\ op' = "tick"
    /\ args' = NoArgs
    /\ ret' = [error |-> NoError, value |-> None]
    /\ calls' = <<>>
    /\ UNCHANGED <<email, password, access_token, token_expires_at, constructed, issued,
                   gen, other, mapping, proxy, proxies>>

Next ==
    \/ CallAuthenticate
    \/ CallIsAuthenticated
    \/ CallEnsureAuthenticated
    \/ CallLogout
    \/ CallGet
    \/ Tick

Spec == Init /\ [][Next]_vars

----------------------------------------------------------------------------
\* The state machine of a traversal: a client that was given a token (or
\* none) and a consumer that pulls items from one generator at a time.

StartPages == {1, 2}

InitPaginate ==
    \E tok \in {None, Some("tok0")} :
        LET r == init(None, None, tok, FALSE, TransportFailure)
        IN  /\ email = r.self.email
            /\ password = r.self.password
            /\ access_token = r.self.access_token
            /\ token_expires_at = r.self.token_expires_at
            /\ now = 0
            /\ constructed = ~Raised(r)
            /\ op = "__init__"
            /\ args = [access_token |-> tok, auto_authenticate |-> FALSE]
            /\ ret = [error |-> r.error, value |-> r.value]
            /\ calls = through(init_proxies(None), r.calls)
            /\ issued = None
            /\ gen = NoGen
            /\ other = NoGen
            /\ mapping = None
            /\ proxy = None
            /\ proxies = init_proxies(None)

\* A resource's list method is called:
\* self._paginate(endpoint, params=params, page=page).
CallPaginate ==
    /\ constructed
    /\ gen.state \in {"none", "done", "failed", "closed"}
    /\ \E params \in Mappings, page \in StartPages :
           /\ gen' = paginate(params, page)
           /\ mapping' = params
           /\ args' = [params |-> params, page |-> page]
    /\ op' = "_paginate"
    /\ ret' = [error |-> NoError, value |-> None]
    /\ calls' = <<>>
    /\ UNCHANGED <<email, password, access_token, token_expires_at, now, constructed,
                   issued, other, proxy, proxies>>

\* The consumer asks the generator for the next item.
CallNext ==
    /\ constructed
    /\ gen.state # "none"
    /\ \E o \in paginate_next(gen, access_token, mapping) :
           /\ gen' = o.gen
           /\ ret' = [error |-> o.error, value |-> o.value]
           /\ calls' = through(proxies, o.calls)
           /\ access_token' = o.token
           /\ mapping' = o.mapping
    /\ op' = "next"
    /\ args' = NoArgs
    /\ UNCHANGED <<email, password, token_expires_at, now, constructed, issued, other,
                   proxy, proxies>>

\* The consumer stops before the end and gives the generator up.
CallClose ==
    /\ constructed
    /\ gen.state \in {"created", "running"}
    /\ gen' = close(gen)
    /\ op' = "close"
    /\ args' = NoArgs
    /\ ret' = [error |-> NoError, value |-> None]
    /\ calls' = <<>>
    /\ UNCHANGED <<email, password, access_token, token_expires_at, now, constructed,
                   issued, other, mapping, proxy, proxies>>

NextPaginate ==
    \/ CallPaginate
    \/ CallNext
    \/ CallClose

SpecPaginate == InitPaginate /\ [][NextPaginate]_vars

----------------------------------------------------------------------------
\* The state machine of two traversals of one endpoint that are consumed in
\* turn, in any order, against a listing that does not change: MaxPage full
\* pages.

\* Every request of g so far was answered from the listing.
Listed(g) ==
    /\ g.state # "failed"
    /\ \A i \in 1..Len(g.requests) :
           /\ g.pages[i] = Listing(g.requests[i]).data
           /\ g.reports[i].current_page = Listing(g.requests[i]).current_page
           /\ g.reports[i].last_page = Listing(g.requests[i]).last_page
           /\ g.reports[i].total = None

Finished(g) == g.state \in {"none", "done", "failed", "closed"}

\* first = self._paginate(endpoint, params=params, page=page)
CallPaginateFirst ==
    /\ Finished(other)
    /\ CallPaginate

\* second = self._paginate(endpoint, params=params, page=page), with the dict
\* that was passed for the first (or none).
CallPaginateOther ==
    /\ constructed
    /\ gen.state # "none"
    /\ Finished(other)
    /\ \E params \in {None, mapping}, page \in StartPages :
           /\ other' = paginate(params, page)
           /\ args' = [params |-> params, page |-> page]
    /\ op' = "_paginate_other"
    /\ ret' = [error |-> NoError, value |-> None]
    /\ calls' = <<>>
    /\ UNCHANGED <<email, password, access_token, token_expires_at, now, constructed,
                   issued, gen, mapping, proxy, proxies>>

\* next(first)
CallNextFirst ==
    /\ constructed
    /\ gen.state # "none"
    /\ \E o \in { x \in generator_next(gen, access_token, mapping, TRUE) : Listed(x.gen) } :
           /\ gen' = o.gen
           /\ ret' = [error |-> o.error, value |-> o.value]
           /\ calls' = through(proxies, o.calls)
           /\ access_token' = o.token
           /\ mapping' = o.mapping
    /\ op' = "next"
    /\ args' = NoArgs
    /\ UNCHANGED <<email, password, token_expires_at, now, constructed, issued, other,
                   proxy, proxies>>

\* next(second)
CallNextOther ==
    /\ constructed
    /\ other.state # "none"
    /\ \E o \in { x \in generator_next(other, access_token, mapping, TRUE) : Listed(x.gen) } :
           /\ other' = o.gen
           /\ ret' = [error |-> o.error, value |-> o.value]
           /\ calls' = through(proxies, o.calls)
           /\ access_token' = o.token
           /\ mapping' = o.mapping
    /\ op' = "next_other"
    /\ args' = NoArgs
    /\ UNCHANGED <<email, password, token_expires_at, now, constructed, issued, gen,
                   proxy, proxies>>

NextTwo ==
    \/ CallPaginateFirst
    \/ CallPaginateOther
    \/ CallNextFirst
    \/ CallNextOther

SpecTwo == InitPaginate /\ [][NextTwo]_vars

----------------------------------------------------------------------------
\* The state machine of a client that was given a proxy (or none): its
\* logins, logouts, resource calls and one traversal of an unchanging listing.

\* What a caller passes as proxy: nothing, an empty string, a URL.
Proxies == {None, Some(""), Some("http://proxy:8080"), Some("socks5h://proxy:1080")}

InitProxy ==
    \E url \in Proxies, auto \in BOOLEAN, response \in LoginResponses :
        LET r == init(Some("user@example.com"), Some("secret"), None, auto, response)
        IN  /\ email = r.self.email
            /\ password = r.self.password
            /\ access_token = r.self.access_token
            /\ token_expires_at = r.self.token_expires_at
            /\ now = 0
            /\ constructed = ~Raised(r)
            /\ op = "__init__"
            /\ args = [access_token |-> None, auto_authenticate |-> auto]
            /\ ret = [error |-> r.error, value |-> r.value]
            /\ calls = through(init_proxies(url), r.calls)
            /\ issued = IF Authenticated(r) THEN Deadline(0, r) ELSE None
            /\ gen = NoGen
            /\ other = NoGen
            /\ mapping = None
            /\ proxy = url
            /\ proxies = init_proxies(url)

\* A list method called with its defaults: self._paginate(endpoint).
CallPaginateDefault ==
    /\ CallPaginateFirst
    /\ args' = [params |-> None, page |-> 1]

NextProxy ==
    \/ CallAuthenticate
    \/ CallLogout
    \/ CallGet
    \/ CallPaginateDefault
    \/ CallNextFirst

SpecProxy == InitProxy /\ [][NextProxy]_vars

----------------------------------------------------------------------------
\* Properties of the session manager.

HasCredentials == Truthy(email) /\ Truthy(password)

\* C1 (as stated): in every reachable state of a client the token and the
\* expiry are either both set or both absent.
C1_TokenAndExpiryTogether ==
    constructed => ((access_token # None) <=> (token_expires_at # None))

\* C1 (amended): an expiry is recorded only while a token value is stored;
\* a token without an expiry does occur (a token given to the constructor,
\* a login whose expires_in is 0).
C1_ExpiryOnlyWithToken ==
    token_expires_at # None => access_token # None

C1_Witness ==
    /\ constructed
    /\ Truthy(access_token)
    /\ token_expires_at # None

\* C2: is_authenticated() returns true iff a token is present and (no expiry
\* is recorded or the current time is before the expiry); it sends no request
\* and leaves token, expiry and credentials as they were.
C2_IsAuthenticated ==
    [][op' = "is_authenticated" =>
        /\ ret'.value = Some(/\ Truthy(access_token)
                             /\ (token_expires_at = None \/ now < token_expires_at[1]))
        /\ ~Raised(ret')
        /\ calls' = <<>>
        /\ UNCHANGED <<email, password, access_token, token_expires_at>>]_vars

C2_Witness ==
    /\ op = "is_authenticated"
    /\ ret.value = Some(FALSE)
    /\ Truthy(access_token)
    /\ token_expires_at = Some(now)

\* C3: after a successful authenticate() the session token is the login
\* response's access_token, the returned value is that token, and the expiry
\* is the time of the call plus the lifetime the server supplied, for every
\* lifetime.
C3_AuthenticateStoresTokenAndExpiry ==
    (op = "authenticate" /\ ~Raised(ret)) =>
        LET body == calls[1].response.body
        IN  /\ access_token = body.access_token
            /\ ret.value = body.access_token
            /\ token_expires_at = Some(now + body.expires_in[1])

\* C4: ensure_authenticated() sends exactly one login request, whether it
\* succeeds or fails, when is_authenticated() is false and both credentials
\* are present, and sends nothing when is_authenticated() is true.
C4_EnsureAuthenticatedOneLogin ==
    [][op' = "ensure_authenticated" =>
        IF is_authenticated(self, now)
        THEN calls' = <<>>
        ELSE HasCredentials =>
                /\ Len(calls') = 1
                /\ calls'[1].method = "POST"
                /\ calls'[1].endpoint = "/v1/auth/login"]_vars

C4_Witness ==
    /\ op = "ensure_authenticated"
    /\ Len(calls) = 1
    /\ calls[1].response.kind = "transport"
    /\ Raised(ret)
    /\ Truthy(access_token)
    /\ token_expires_at # None
    /\ now >= token_expires_at[1]

\* C5: when is_authenticated() is false and email or password is missing,
\* ensure_authenticated() raises AuthenticationError, sends no request and
\* leaves token and expiry as they were.
C5_EnsureAuthenticatedNoCredentials ==
    [][(op' = "ensure_authenticated" /\ ~is_authenticated(self, now) /\ ~HasCredentials) =>
        /\ ret'.error.kind = "AuthenticationError"
        /\ calls' = <<>>
        /\ UNCHANGED <<access_token, token_expires_at>>]_vars

C5_Witness ==
    /\ op = "ensure_authenticated"
    /\ ret.error.kind = "AuthenticationError"
    /\ calls = <<>>
    /\ Truthy(email)
    /\ ~Truthy(password)

\* C6: whenever logout() is called with a token present, token and expiry
\* are both absent when it ends, whatever the remote call did.
C6_LogoutClears ==
    [][(op' = "logout" /\ Truthy(access_token)) =>
        /\ access_token' = None
        /\ token_expires_at' = None]_vars

C6_Witness ==
    /\ op = "logout"
    /\ Len(calls) = 1
    /\ calls[1].response.kind = "transport"
    /\ access_token = None
    /\ token_expires_at = None

\* C7: a failure of the remote invalidation call is discarded: logout()
\* ends without an error.
C7_LogoutDiscardsRemoteFailure ==
    op = "logout" => ~Raised(ret)

\* C8: whenever no token is present logout() sends no request, raises no
\* error and leaves the session as it was.
C8_LogoutIdempotent ==
    [][(op' = "logout" /\ ~Truthy(access_token)) =>
        /\ calls' = <<>>
        /\ ~Raised(ret')
        /\ UNCHANGED <<email, password, access_token, token_expires_at>>]_vars

C8_Witness ==
    /\ constructed
    /\ op = "logout"
    /\ calls = <<>>
    /\ ~Raised(ret)
    /\ access_token = None
    /\ HasCredentials

\* C9: any failure of the login call made by authenticate() reaches the
\* caller as AuthenticationError, whose message contains the message of the
\* failure.
C9_LoginFailureWrapped ==
    (op = "authenticate" /\ calls # <<>> /\ Raised(ret)) =>
        /\ ret.error.kind = "AuthenticationError"
        /\ Contains(ret.error.message,
                    login(access_token, calls[1].response).error.message)

C9_Witness ==
    /\ op = "authenticate"
    /\ ret.error.kind = "AuthenticationError"
    /\ Len(calls) = 1
    /\ calls[1].response.status = 404
    /\ Contains(ret.error.message, <<"invalid_grant">>)

\* C10: authenticate() with email or password missing or empty raises
\* AuthenticationError, sends no request and leaves token and expiry as
\* they were.
C10_AuthenticateNeedsCredentials ==
    [][(op' = "authenticate" /\ ~HasCredentials) =>
        /\ ret'.error.kind = "AuthenticationError"
        /\ calls' = <<>>
        /\ UNCHANGED <<access_token, token_expires_at>>]_vars

C10_Witness ==
    /\ op = "authenticate"
    /\ ret.error.kind = "AuthenticationError"
    /\ calls = <<>>
    /\ email = Some("")
    /\ Truthy(password)
    /\ Truthy(access_token)

\* C11: construction sends a login request (exactly one) iff email and
\* password are both given, no token is given and auto_authenticate is not
\* switched off; it then fails with AuthenticationError when the login fails;
\* in every other case it sends nothing and keeps the token as given.
C11_ConstructionAuthenticates ==
    op = "__init__" =>
        IF args.auto_authenticate /\ HasCredentials /\ ~Truthy(args.access_token)
        THEN /\ Len(calls) = 1
             /\ calls[1].method = "POST"
             /\ calls[1].endpoint = "/v1/auth/login"
             /\ Raised(login(args.access_token, calls[1].response)) =>
                    (~constructed /\ ret.error.kind = "AuthenticationError")
        ELSE /\ calls = <<>>
             /\ constructed
             /\ ~Raised(ret)
             /\ access_token = args.access_token

C11_Witness ==
    /\ op = "__init__"
    /\ ~constructed
    /\ Len(calls) = 1
    /\ calls[1].response.status = 401
    /\ ret.error.kind = "AuthenticationError"

\* C12: an authenticate() answered by a login response that carries a token
\* and no expires_in succeeds, leaves the session with a token and no expiry,
\* and is_authenticated() is true right afterwards; and is_authenticated() is
\* false right after construction with no credentials and no token.
C12_NoExpiresIn ==
    /\ (/\ op = "authenticate"
        /\ calls # <<>>
        /\ calls[1].response.kind = "http"
        /\ calls[1].response.status = 200
        /\ calls[1].response.body.shape = "object"
        /\ Truthy(calls[1].response.body.access_token)
        /\ calls[1].response.body.expires_in = None) =>
            /\ ~Raised(ret)
            /\ access_token = calls[1].response.body.access_token
            /\ token_expires_at = None
            /\ is_authenticated(self, now)
    /\ (op = "__init__" /\ ~HasCredentials /\ ~Truthy(args.access_token)) =>
            ~is_authenticated(self, now)

\* C13: after a successful authenticate() at time t with lifetime expires_in,
\* is_authenticated() is false at every time later than t + expires_in, as
\* long as no further authenticate() succeeds.
C13_ExpiredAfterDeadline ==
    (constructed /\ issued # None /\ now > issued[1]) => ~is_authenticated(self, now)

\* C14: every request carries Authorization: Bearer <the session's token> when
\* a token is present and no Authorization of the client's own when none is;
\* a resource call sends its one request and never a login, and leaves token
\* and expiry alone, also when the token is expired or absent.
C14_BearerIffToken ==
    [][/\ \A i \in 1..Len(calls') :
            calls'[i].authorization =
                IF Truthy(access_token) THEN Some("Bearer " \o access_token[1])
                ELSE IF op' = "_get" THEN args'.headers.Authorization
                ELSE None
       /\ op' = "_get" =>
            /\ Len(calls') = 1
            /\ calls'[1].endpoint = "/v1/me"
            /\ UNCHANGED <<access_token, token_expires_at>>]_vars

C14_Witness ==
    /\ op = "_get"
    /\ Truthy(access_token)
    /\ token_expires_at # None
    /\ now >= token_expires_at[1]
    /\ calls[1].authorization = Some("Bearer " \o access_token[1])

\* C15: a resource call returns the response iff the status is below 400;
\* for every status >= 400 it raises, and the error carries that status.
C15_ReturnsIffBelow400 ==
    (op = "_get" /\ calls[1].response.kind = "http") =>
        LET response == calls[1].response
        IN  IF response.status < 400
            THEN ~Raised(ret) /\ ret.value = Some(response)
            ELSE /\ Raised(ret)
                 /\ ret.value = None
                 /\ ret.error.status_code = Some(response.status)
                 /\ ret.error.status_code[1] >= 400

C15_Witness ==
    /\ op = "_get"
    /\ calls[1].response.status = 400
    /\ Raised(ret)
    /\ ret.error.status_code = Some(400)

\* C16: 404 raises NotFoundError, 429 raises RateLimitError, every other
\* status >= 400 raises the generic APIError; each carries the message, the
\* status and the decoded payload.
C16_Classification ==
    (op = "_get" /\ calls[1].response.kind = "http" /\ calls[1].response.status >= 400) =>
        LET response == calls[1].response
        IN  /\ ret.error.kind = CASE response.status = 404 -> "NotFoundError"
                                  [] response.status = 429 -> "RateLimitError"
                                  [] OTHER -> "APIError"
            /\ ret.error.message # <<>>
            /\ ret.error.status_code = Some(response.status)
            /\ ret.error.response =
                   IF response.body.shape \in {"invalid", "null"} THEN None
                   ELSE Some(response.body)

C16_Witness ==
    /\ op = "_get"
    /\ calls[1].response.status = 429
    /\ ret.error.kind = "RateLimitError"
    /\ ret.error.response # None

\* C17: a transport failure of a resource call (no HTTP response) reaches the
\* caller as a generic APIError with a message and neither status nor payload.
C17_TransportFailureIsAPIError ==
    (op = "_get" /\ calls[1].response.kind = "transport") =>
        /\ ret.error.kind = "APIError"
        /\ ret.error.message # <<>>
        /\ ret.error.status_code = None
        /\ ret.error.response = None

\* The message of a JSON object: error_description, else message, else the
\* stringified payload.
ObjectMessage(body) ==
    IF Truthy(body.error_description) THEN <<body.error_description[1]>>
    ELSE IF Truthy(body.message) THEN <<body.message[1]>>
    ELSE Str(body)

\* The message of a body without a usable JSON value: the text, else "HTTP <status>".
TextMessage(response) ==
    IF response.body.text # "" THEN <<response.body.text>>
    ELSE <<"HTTP ", ToString(response.status)>>

\* C18 (as stated): the message is the error_description of the JSON body,
\* else its message, else the stringified payload; if the body is not valid
\* JSON, the raw text, else "HTTP <status>".
C18_MessagePrecedence ==
    (op = "_get" /\ calls[1].response.kind = "http" /\ calls[1].response.status >= 400) =>
        ret.error.message =
            IF calls[1].response.body.shape # "invalid"
            THEN ObjectMessage(calls[1].response.body)
            ELSE TextMessage(calls[1].response)

\* C18 (amended): that precedence holds for a body that is a JSON object; for
\* every other body (no JSON, or JSON that is no object) the message is the
\* raw text, else "HTTP <status>".
C18_MessagePrecedenceOfObjects ==
    (op = "_get" /\ calls[1].response.kind = "http" /\ calls[1].response.status >= 400) =>
        ret.error.message =
            IF calls[1].response.body.shape = "object"
            THEN ObjectMessage(calls[1].response.body)
            ELSE TextMessage(calls[1].response)

C18_Witness ==
    /\ op = "_get"
    /\ calls[1].response.kind = "http"
    /\ calls[1].response.body.shape = "array"
    /\ ret.error.message = <<"[1,2]">>

----------------------------------------------------------------------------
\* Properties of the traversal (SpecPaginate).

RECURSIVE Flatten(_)
Flatten(pages) == IF pages = <<>> THEN <<>> ELSE Head(pages) \o Flatten(Tail(pages))

RECURSIVE SumOfLengths(_)
SumOfLengths(pages) ==
    IF pages = <<>> THEN 0 ELSE Len(Head(pages)) + SumOfLengths(Tail(pages))

\* <<a, a + 1, ..., b>>
FromTo(a, b) == [i \in 1..(b - a + 1) |-> a + i - 1]

\* C19: when a traversal has been consumed to the end, what it yielded is the
\* concatenation, in the order requested, of the items of every page it
\* received, each page in the order received, and its length is the sum of the
\* page lengths; the pages requested are startPage, startPage + 1, ... without
\* a gap, and when the envelopes report one last_page >= startPage and never
\* another current_page than the page requested, they are exactly the pages
\* startPage..last_page.
C19_YieldsEveryPageInOrder ==
    gen.state = "done" =>
        /\ gen.yielded = Flatten(gen.pages)
        /\ Len(gen.yielded) = SumOfLengths(gen.pages)
        /\ Len(gen.pages) = Len(gen.requests)
        /\ gen.requests = FromTo(gen.start, gen.start + Len(gen.requests) - 1)
        /\ \A i \in 1..Len(gen.pages) : \A j \in 1..Len(gen.pages[i]) :
               gen.pages[i][j].page = gen.requests[i] /\ gen.pages[i][j].index = j
        /\ (gen.honest /\ gen.first_last[1] >= gen.start) =>
               gen.requests = FromTo(gen.start, gen.first_last[1])

\* A traversal of two full pages, 1 and 2 of 2, was consumed to the end.
C19_Witness ==
    /\ op = "next"
    /\ ret.error = StopIteration
    /\ gen.state = "done"
    /\ gen.honest
    /\ gen.start = 1
    /\ gen.first_last = Some(2)
    /\ gen.requests = <<1, 2>>
    /\ gen.yielded = Items(1, PageSize) \o Items(2, PageSize)

\* C20 as stated: once the first envelope has come without last_page, only one
\* request is ever sent and the traversal ends having yielded that page's
\* items, whatever current_page the envelope reports or omits.
C20_SinglePageWithoutLastPage ==
    (gen.pages # <<>> /\ gen.first_last = None) =>
        /\ Len(gen.requests) = 1
        /\ gen.state \in {"running", "done", "closed"}
        /\ gen.yielded \o gen.buffer = gen.pages[1]
        /\ gen.state = "done" => gen.yielded = gen.pages[1]

\* C20, amended: the same, when the current_page of that envelope is omitted
\* or is not below the page requested.  (last_page defaults to the page
\* requested, so a reported current_page below it reads as "more pages".)
C20_SinglePageWithoutLastPageUnlessBehind ==
    (/\ gen.pages # <<>>
     /\ gen.first_last = None
     /\ (gen.first_current = None \/ gen.first_current[1] >= gen.start)) =>
        /\ Len(gen.requests) = 1
        /\ gen.state \in {"running", "done", "closed"}
        /\ gen.yielded \o gen.buffer = gen.pages[1]
        /\ gen.state = "done" => gen.yielded = gen.pages[1]

\* A traversal from page 2 whose only envelope had neither last_page nor
\* current_page was consumed to the end.
C20_Witness ==
    /\ op = "next"
    /\ ret.error = StopIteration
    /\ gen.state = "done"
    /\ gen.start = 2
    /\ gen.first_last = None
    /\ gen.first_current = None
    /\ gen.requests = <<2>>
    /\ gen.yielded = Items(2, PageSize)

\* C21: creating a traversal sends no request; a step of the consumer sends a
\* request only if every item received so far has been handed over, one
\* request for each page it enters and for consecutive pages; giving the
\* traversal up sends nothing, and nothing is sent for it afterwards.
C21_Lazy ==
    [][/\ op' = "_paginate" => (calls' = <<>> /\ gen'.requests = <<>>)
       /\ op' = "close" => (calls' = <<>> /\ gen'.requests = gen.requests)
       /\ op' = "next" =>
            /\ gen.buffer # <<>> => (calls' = <<>> /\ gen'.requests = gen.requests)
            /\ gen.state = "closed" => (calls' = <<>> /\ gen'.requests = gen.requests)
            /\ calls' # <<>> => gen.yielded = Flatten(gen.pages)
            /\ gen'.requests =
                 gen.requests \o FromTo(next_page(gen), next_page(gen) + Len(calls') - 1)
            /\ Len(gen'.pages)
                 + (IF gen'.state = "failed" /\ gen.state # "failed" THEN 1 ELSE 0) =
                 Len(gen.pages) + Len(calls')]_vars

\* The consumer has just been handed the first item of page 2, which took one
\* request, after it had been handed every item of page 1.
C21_Witness ==
    /\ op = "next"
    /\ Len(calls) = 1
    /\ gen.requests = <<1, 2>>
    /\ gen.yielded = Append(Items(1, PageSize), Items(2, PageSize)[1])
    /\ gen.buffer = Tail(Items(2, PageSize))

\* The envelopes received so far all report a last_page, none smaller than
\* the one before.
NonDecreasing(g) ==
    /\ \A i \in 1..Len(g.reports) : g.reports[i].last_page # None
    /\ \A i, j \in 1..Len(g.reports) :
           i < j => g.reports[i].last_page[1] <= g.reports[j].last_page[1]

\* No envelope received so far reports a current_page below the page that was
\* requested.
Advancing(g) ==
    \A i \in 1..Len(g.reports) :
        g.reports[i].current_page = None \/ g.reports[i].current_page[1] >= g.requests[i]

\* No page after the first is requested unless the envelope before reported
\* a last_page that reaches it: the requests end at the reported last_page.
WithinLastPage(g) ==
    \A i \in 2..Len(g.requests) :
        g.reports[i - 1].last_page # None /\ g.requests[i] <= g.reports[i - 1].last_page[1]

Running(g) == g.state \in {"created", "running"}

----------------------------------------------------------------------------
\* More properties of the dispatcher and the session (Spec).

\* C23: a dispatch sends exactly one request, whatever the answer: a status
\* >= 400 (429 included) or a transport failure is raised to the caller after
\* that one attempt, every other response is returned.
C23_OneCallNoRetry ==
    op = "_get" =>
        /\ Len(calls) = 1
        /\ (calls[1].response.kind = "transport" \/ calls[1].response.status >= 400)
              <=> Raised(ret)
        /\ (calls[1].response.kind = "http" /\ calls[1].response.status >= 400) =>
              ret.error.status_code = Some(calls[1].response.status)
        /\ ~Raised(ret) => ret.value = Some(calls[1].response)

\* A dispatch was answered 429 and raised RateLimitError after one request.
C23_Witness ==
    /\ op = "_get"
    /\ Len(calls) = 1
    /\ calls[1].response.status = 429
    /\ ret.error.kind = "RateLimitError"

\* C24: a dispatch and every step of a traversal leave email, password,
\* token and expiry as they were, whatever the response; token and expiry
\* change in authenticate(), ensure_authenticated() and logout() only.
C24_SessionFrame ==
    [][/\ op' \in {"_get", "_paginate", "next", "close"} =>
            UNCHANGED <<email, password, access_token, token_expires_at>>
       /\ <<access_token, token_expires_at>>' # <<access_token, token_expires_at>> =>
            op' \in {"authenticate", "ensure_authenticated", "logout"}]_vars

\* A dispatch with an expired token was answered 401: token and expiry are
\* still there.
C24_Witness ==
    /\ op = "_get"
    /\ calls[1].response.kind = "http"
    /\ calls[1].response.status = 401
    /\ Truthy(access_token)
    /\ token_expires_at # None
    /\ now >= token_expires_at[1]

\* C29: when ensure_authenticated() has returned without error,
\* is_authenticated() at the same instant is true.
C29_EnsuredIsAuthenticated ==
    (op = "ensure_authenticated" /\ ~Raised(ret)) => is_authenticated(self, now)

\* C30: an authenticate() that raises leaves token and expiry as they were.
C30_FailedAuthenticateKeepsSession ==
    [][(op' = "authenticate" /\ Raised(ret')) =>
        UNCHANGED <<access_token, token_expires_at>>]_vars

----------------------------------------------------------------------------
\* More properties of the traversal (SpecPaginate).

\* The filter in the dict the caller passed, None if it passed none.
CallerFilter == IF mapping = None THEN None ELSE mapping[1].filter

\* Whether the envelope received last reports current_page < last_page, a
\* missing one of the two counting as the page requested.
ReportedMore(g) ==
    LET report == g.reports[Len(g.reports)]
        page == g.requests[Len(g.requests)]
        current_page == IF report.current_page # None THEN report.current_page[1] ELSE page
        last_page == IF report.last_page # None THEN report.last_page[1] ELSE page
    IN  current_page < last_page

\* C26: the k-th request of a traversal carries page = startPage + k - 1 and
\* the caller's filter, whatever current_page the server reported; and when
\* the items of a page are used up, asking for the next item sends a request
\* if and only if the envelope of that page had current_page < last_page.
C26_PageParameter ==
    /\ [](\A k \in 1..Len(gen.queries) :
             /\ gen.queries[k] = Query(CallerFilter, Some(gen.start + k - 1))
             /\ gen.requests[k] = gen.start + k - 1)
    /\ [][(op' = "next" /\ gen.state = "running" /\ gen.buffer = <<>>) =>
            (calls' # <<>> <=> ReportedMore(gen))]_vars

\* The second request of a traversal from page 1 with a filter asked for page
\* 2, although the first envelope had reported current_page = 0.
C26_Witness ==
    /\ gen.start = 1
    /\ gen.queries = << Query(Some("new"), Some(1)), Query(Some("new"), Some(2)) >>
    /\ gen.reports[1].current_page = Some(0)

\* The envelope reports a current_page and a last_page, the first not below
\* the second.
Terminal(report) ==
    /\ report.current_page # None
    /\ report.last_page # None
    /\ report.current_page[1] >= report.last_page[1]

\* C27: no request follows a page whose envelope reports current_page >=
\* last_page, and once the items of that page are used up the traversal is at
\* its end, whatever per_page, total or the number of items are.
C27_TerminalPage ==
    /\ [](\A i \in 1..Len(gen.reports) :
             Terminal(gen.reports[i]) =>
                /\ Len(gen.requests) = i
                /\ gen.state \in {"running", "done", "closed"})
    /\ [][(/\ op' = "next"
            /\ gen.state = "running"
            /\ gen.buffer = <<>>
            /\ Terminal(gen.reports[Len(gen.reports)])) =>
            /\ gen'.state = "done"
            /\ ret'.error = StopIteration
            /\ calls' = <<>>
            /\ gen'.yielded = Flatten(gen.pages)]_vars

\* A traversal ended after one full page that reported current_page =
\* last_page = 1 and a total of more records than the page held.
C27_Witness ==
    /\ op = "next"
    /\ gen.state = "done"
    /\ gen.requests = <<1>>
    /\ Terminal(gen.reports[1])
    /\ gen.reports[1].total # None
    /\ gen.reports[1].total[1] > Len(gen.yielded)
    /\ Len(gen.yielded) = PageSize

\* The exceptions of frisbo/exceptions.py.
Typed(error) ==
    error.kind \in {"AuthenticationError", "APIError", "NotFoundError", "RateLimitError"}

\* C28: when the request for a page has failed (status >= 400 or no response)
\* the consumer has been handed every item of the pages before it, the step
\* that sent the request raises a typed error, the failed request was sent
\* once, and the traversal is over.
C28_PageFailure ==
    (/\ op = "next"
     /\ calls # <<>>
     /\ \/ calls[Len(calls)].response.kind = "transport"
        \/ calls[Len(calls)].response.status >= 400) =>
        /\ gen.state = "failed"
        /\ gen.yielded = Flatten(gen.pages)
        /\ Len(gen.requests) = Len(gen.pages) + 1
        /\ \A i \in 1..(Len(calls) - 1) :
               calls[i].response.kind = "http" /\ calls[i].response.status < 400
        /\ Raised(ret)
        /\ Typed(ret.error)
        /\ paginate_next(gen, access_token, mapping) =
               { [gen |-> gen, error |-> StopIteration, value |-> None, calls |-> <<>>,
                  token |-> access_token, mapping |-> mapping] }

----------------------------------------------------------------------------
\* Properties of two traversals (SpecTwo).

\* What a traversal from page start yields when it is consumed alone: the
\* pages start..MaxPage of the listing.
Alone(start) == Flatten([i \in 1..(MaxPage - start + 1) |-> Listing(start + i - 1).data])

\* g has asked for its own consecutive pages and has yielded the beginning
\* (at its end: the whole) of what it yields alone.
Independent(g) ==
    /\ g.requests = FromTo(g.start, g.start + Len(g.requests) - 1)
    /\ \A k \in 1..Len(g.queries) : g.queries[k].page = Some(g.requests[k])
    /\ Len(g.yielded) <= Len(Alone(g.start))
    /\ g.yielded = SubSeq(Alone(g.start), 1, Len(g.yielded))
    /\ g.state = "done" => g.yielded = Alone(g.start)

\* C25: two traversals of one endpoint, consumed in any interleaving, each
\* request their own consecutive pages from their own start page and each
\* yield what they yield alone; creating the second leaves the first as it is.
C25_IndependentTraversals ==
    /\ [](gen.state # "none" => Independent(gen))
    /\ [](other.state # "none" => Independent(other))
    /\ [][op' = "_paginate_other" =>
            (gen' = gen /\ other'.yielded = <<>> /\ other'.requests = <<>>)]_vars

\* Two traversals that share the caller's dict: the first is in its second
\* page when the second traversal sends its first request, for page 1.
C25_Witness ==
    /\ gen.alias /\ other.alias
    /\ gen.start = 1 /\ other.start = 1
    /\ gen.requests = <<1, 2>>
    /\ Len(gen.yielded) = PageSize + 1
    /\ other.requests = <<1>>
    /\ Len(other.yielded) = 1
    /\ mapping = Some(Query(Some("new"), Some(1)))

----------------------------------------------------------------------------
\* Properties of the dispatcher's error classification, headers and proxy.

\* C31: for every response with status >= 400, whatever the shape of its
\* body (JSON object, array, string, number, null, invalid JSON, empty), the
\* call raises NotFoundError, RateLimitError or APIError, and which one
\* depends on the status alone.
C31_ClassifiedForEveryBody ==
    (op = "_get" /\ calls[1].response.kind = "http" /\ calls[1].response.status >= 400) =>
        /\ calls[1].response.body.shape \in
               {"object", "array", "string", "number", "null", "invalid"}
        /\ Raised(ret)
        /\ ret.error.kind \in {"NotFoundError", "RateLimitError", "APIError"}
        /\ ret.error.kind = "NotFoundError" <=> calls[1].response.status = 404
        /\ ret.error.kind = "RateLimitError" <=> calls[1].response.status = 429

\* A rate-limit answer whose body is the JSON value null.
C31_Witness ==
    /\ op = "_get"
    /\ calls[1].response.status = 429
    /\ calls[1].response.body.shape = "null"
    /\ ret.error.kind = "RateLimitError"
    /\ ret.error.message = <<"null">>

\* C32: logout() with a token present sends exactly one request, to the
\* invalidation endpoint, carrying the bearer header of the token that is
\* being logged out, and token and expiry are absent when it has ended,
\* whether the request succeeded or failed and whether or not the token had
\* expired.
C32_LogoutCallsThenClears ==
    [][(op' = "logout" /\ Truthy(access_token)) =>
        /\ Len(calls') = 1
        /\ calls'[1].method = "GET"
        /\ calls'[1].endpoint = "/v1/auth/logout"
        /\ calls'[1].authorization = Some("Bearer " \o access_token[1])
        /\ access_token' = None
        /\ token_expires_at' = None]_vars

\* A logout after the deadline of the token, whose request (with that token)
\* could not be delivered.
C32_Witness ==
    /\ op = "logout"
    /\ issued # None
    /\ now > issued[1]
    /\ Len(calls) = 1
    /\ calls[1].authorization = Some("Bearer abc")
    /\ calls[1].response.kind = "transport"
    /\ access_token = None
    /\ token_expires_at = None

\* C33: logout() leaves email and password as they are, and an
\* ensure_authenticated() that follows a logout() of a client with email and
\* password sends exactly one request, the login, without a bearer header,
\* and when it returns without error the token of the login response is
\* the stored one.
C33_LogoutKeepsCredentials ==
    [][/\ op' = "logout" => UNCHANGED <<email, password>>
       /\ (op = "logout" /\ HasCredentials /\ op' = "ensure_authenticated") =>
            /\ Len(calls') = 1
            /\ calls'[1].method = "POST"
            /\ calls'[1].endpoint = "/v1/auth/login"
            /\ calls'[1].authorization = None
            /\ ~Raised(ret') => /\ access_token' = calls'[1].response.body.access_token
                                /\ access_token' # None]_vars

\* A client with credentials that has just logged out a token with a remote
\* call, and whose ensure_authenticated() can store the token of a new login.
C33_Witness ==
    /\ op = "logout"
    /\ calls # <<>>
    /\ HasCredentials
    /\ access_token = None
    /\ ENABLED (CallEnsureAuthenticated /\ ~Raised(ret') /\ access_token' = Some("xyz"))

\* C34: every request that is sent carries Content-Type application/json,
\* whatever Content-Type the caller's extra headers name; and a resource call
\* made while a token is present carries the bearer header of that token,
\* whatever Authorization the caller's extra headers name.
C34_HeadersOverride ==
    [][/\ \A i \in 1..Len(calls') : calls'[i].content_type = "application/json"
       /\ (op' = "_get" /\ Truthy(access_token)) =>
            /\ args'.headers \in ExtraHeaders
            /\ calls'[1].authorization = Some("Bearer " \o access_token[1])]_vars

\* A resource call with a token whose caller named both headers differently.
C34_Witness ==
    /\ op = "_get"
    /\ args.headers = Headers(Some("Bearer other"), Some("text/plain"))
    /\ Truthy(access_token)
    /\ calls[1].authorization = Some("Bearer " \o access_token[1])
    /\ calls[1].authorization # args.headers.Authorization
    /\ calls[1].content_type = "application/json"

----------------------------------------------------------------------------
\* Properties of the caller's query mapping (SpecPaginate).

\* C35: no step of a traversal changes the query mapping that the caller
\* passed to it.
C35_CallerMappingUnchanged ==
    [][op' = "next" => mapping' = mapping]_vars

----------------------------------------------------------------------------
\* Properties of the proxy (SpecProxy).

\* C36: every request a client sends (login, logout, resource call, page of
\* a traversal) goes out with the proxy URL that was given at construction,
\* the same for http and https destinations, and with no proxies when no
\* proxy was given; the client's proxies never change.
C36_OneProxyForEveryRequest ==
    /\ [](\A i \in 1..Len(calls) :
            /\ Truthy(proxy) => calls[i].proxies = Some([http |-> proxy[1], https |-> proxy[1]])
            /\ proxy = None => calls[i].proxies = None)
    /\ [][proxies' = proxies /\ proxy' = proxy]_vars

\* The request for the second page of a traversal by a client with a proxy
\* that holds a token from a login.
C36_Witness ==
    /\ op = "next"
    /\ calls # <<>>
    /\ gen.requests = <<1, 2>>
    /\ access_token = Some("abc")
    /\ proxy = Some("socks5h://proxy:1080")
    /\ calls[1].proxies = Some([http |-> "socks5h://proxy:1080",
                                https |-> "socks5h://proxy:1080"])

============================================================================
